---------------------------- MODULE Spec2Model ----------------------------
(***************************************************************************)
(* A model of app.py, the Decision-Statistics Streamlit script.            *)
(*                                                                         *)
(* One run of the script is one behaviour prefix: the script counter pc    *)
(* walks through the widgets and computations in source order.  Streamlit  *)
(* reruns the script from the top on every interaction (action Rerun).     *)
(*                                                                         *)
(* Numbers.  The script computes in IEEE-754 binary64.  The model keeps    *)
(* the same arithmetic in kind but with a reduced format: a finite value   *)
(* is an integer count of 2^-FracBits, every operation computes the exact  *)
(* result and rounds it to the nearest value with Prec significant bits,   *)
(* ties to even (below 2^Prec counts the grid itself is the spacing, as    *)
(* for subnormals).  NaN and the two infinities follow the IEEE rules.     *)
(* Signed zeros and overflow to infinity are not modelled; the inputs are  *)
(* bounded so that no result leaves the finite range.                      *)
(***************************************************************************)
EXTENDS Integers, Sequences, FiniteSets, TLC

\* ------------------------------------------------------------- bounds
\* Significant bits of the model's floating-point format (binary64: 53).
Prec == 6
\* Fraction bits of the grid: the smallest positive value is 2^-FracBits.
FracBits == 8
\* Largest sample size entered in the Manual Summary form.
MaxN == 31
\* Longest comma-separated list typed into a text area.
MaxTokens == 3

Unit == 2 ^ FracBits

\* ------------------------------------------------ floating-point values
Fin(v) == [k |-> "fin", v |-> v]
NaN == [k |-> "nan", v |-> 0]
PInf == [k |-> "inf", v |-> 1]
NInf == [k |-> "inf", v |-> -1]
\* A Python name that holds no number yet.
Unbound == [k |-> "unbound", v |-> 0]

IsFin(a) == a.k = "fin"
IsNaN(a) == a.k = "nan"
IsInf(a) == a.k = "inf"
Zero == Fin(0)
One == Fin(Unit)

AbsInt(i) == IF i < 0 THEN -i ELSE i
SignInt(i) == IF i < 0 THEN -1 ELSE IF i > 0 THEN 1 ELSE 0

RECURSIVE BitLen(_)
BitLen(m) == IF m <= 0 THEN 0 ELSE 1 + BitLen(m \div 2)

\* Spacing of the representable values around the count m >= 0.
Quantum(m) == IF BitLen(m) <= Prec THEN 1 ELSE 2 ^ (BitLen(m) - Prec)

\* The representable count nearest to num/den (num >= 0, den > 0), ties to even.
RoundNearestEven(num, den) ==
    LET q == num \div den
        qm == Quantum(q)
        lo == (q \div qm) * qm
        twice == 2 * (num - lo * den)
        half == qm * den
    IN  IF twice < half THEN lo
        ELSE IF twice > half THEN lo + qm
        ELSE IF (lo \div qm) % 2 = 0 THEN lo ELSE lo + qm

\* The float nearest to the exact rational num/den counts (den # 0).
Rnd(num, den) ==
    Fin(SignInt(num) * SignInt(den) * RoundNearestEven(AbsInt(num), AbsInt(den)))

\* int -> float, as in np.sqrt(n) or float("48").
FromInt(i) == Rnd(i * Unit, 1)
\* The float nearest to the decimal literal num/den.
FromRatio(num, den) == Rnd(num * Unit, den)

Neg(a) == IF IsFin(a) \/ IsInf(a) THEN [k |-> a.k, v |-> -a.v] ELSE a

Abs(a) == IF IsFin(a) \/ IsInf(a) THEN [k |-> a.k, v |-> AbsInt(a.v)] ELSE a

Add(a, b) ==
    IF IsNaN(a) \/ IsNaN(b) THEN NaN
    ELSE IF IsInf(a) /\ IsInf(b) THEN (IF a.v = b.v THEN a ELSE NaN)
    ELSE IF IsInf(a) THEN a
    ELSE IF IsInf(b) THEN b
    ELSE Rnd(a.v + b.v, 1)

Sub(a, b) == Add(a, Neg(b))

Mul(a, b) ==
    IF IsNaN(a) \/ IsNaN(b) THEN NaN
    ELSE IF IsInf(a) \/ IsInf(b)
         THEN (IF a.v = 0 \/ b.v = 0 THEN NaN
               ELSE IF SignInt(a.v) = SignInt(b.v) THEN PInf ELSE NInf)
    ELSE Rnd(a.v * b.v, Unit)

\* numpy scalar division: x/0 is nan or an infinity (with a RuntimeWarning),
\* never ZeroDivisionError.
Div(a, b) ==
    IF IsNaN(a) \/ IsNaN(b) THEN NaN
    ELSE IF IsInf(a) /\ IsInf(b) THEN NaN
    ELSE IF IsInf(a) THEN (IF SignInt(a.v) * SignInt(b.v) < 0 THEN NInf ELSE PInf)
    ELSE IF IsInf(b) THEN Zero
    ELSE IF b.v = 0
         THEN (IF a.v = 0 THEN NaN ELSE IF a.v > 0 THEN PInf ELSE NInf)
    ELSE Rnd(a.v * Unit, b.v)

\* floor(sqrt(m)) for an integer m >= 0, by bisection on [lo, hi).
RECURSIVE ISqrtIn(_, _, _)
ISqrtIn(m, lo, hi) ==
    IF hi - lo <= 1 THEN lo
    ELSE LET mid == (lo + hi) \div 2
         IN  IF mid * mid <= m THEN ISqrtIn(m, mid, hi) ELSE ISqrtIn(m, lo, mid)
ISqrt(m) == ISqrtIn(m, 0, 2 ^ (BitLen(m) \div 2 + 1))

\* np.sqrt: the correctly rounded square root; nan below zero.
Sqrt(a) ==
    IF IsNaN(a) THEN NaN
    ELSE IF IsInf(a) THEN (IF a.v > 0 THEN PInf ELSE NaN)
    ELSE IF a.v < 0 THEN NaN
    ELSE LET m == a.v * Unit            \* (result count)^2 ~ m
             s == ISqrt(m)
             qm == Quantum(s)
             lo == (s \div qm) * qm
             hi == lo + qm
         IN  \* sqrt(m) lies above the midpoint of lo and hi iff 4m > (lo + hi)^2
             IF 4 * m < (lo + hi) * (lo + hi) THEN Fin(lo)
             ELSE IF 4 * m > (lo + hi) * (lo + hi) THEN Fin(hi)
             ELSE IF (lo \div qm) % 2 = 0 THEN Fin(lo) ELSE Fin(hi)

\* np.ceil: the least integer not below a (always representable).
Ceil(a) ==
    IF ~IsFin(a) THEN a
    ELSE LET f == (a.v \div Unit) * Unit       \* \div floors, also below zero
         IN  IF f = a.v THEN a ELSE Fin(f + Unit)

\* a <= b, a < b, a >= b on floats: every comparison with nan is false.
Le(a, b) ==
    IF IsNaN(a) \/ IsNaN(b) THEN FALSE
    ELSE IF IsInf(a) THEN (a.v < 0 \/ (IsInf(b) /\ b.v > 0))
    ELSE IF IsInf(b) THEN b.v > 0
    ELSE a.v <= b.v

Lt(a, b) == Le(a, b) /\ a # b

Ge(a, b) == Le(b, a)

FMin(a, b) == IF Lt(b, a) THEN b ELSE a
FMax(a, b) == IF Lt(a, b) THEN b ELSE a


\* ------------------------------------------------------- scipy.stats
\* The confidence slider holds exact hundredths (0.80 .. 0.99); the model keeps
\* the level as a percentage and the quantile (1 + confidence) / 2 per mille.
ConfidenceLevels == {80, 95, 99}

Quantile(conf) == (1000 + 10 * conf) \div 2

\* stats.norm.ppf at the quantiles of ConfidenceLevels, in thousandths.
NormPpfMilli(q) ==
    CASE q = 900 -> 1282
      [] q = 975 -> 1960
      [] q = 995 -> 2576

\* stats.t.ppf at the same quantiles for df = 1 .. 30, in thousandths.
TPpfMilli(q, d) ==
    CASE q = 900 ->
           <<3078, 1886, 1638, 1533, 1476, 1440, 1415, 1397, 1383, 1372,
             1363, 1356, 1350, 1345, 1341, 1337, 1333, 1330, 1328, 1325,
             1323, 1321, 1319, 1318, 1316, 1315, 1314, 1313, 1311, 1310>>[d]
      [] q = 975 ->
           <<12706, 4303, 3182, 2776, 2571, 2447, 2365, 2306, 2262, 2228,
             2201, 2179, 2160, 2145, 2131, 2120, 2110, 2101, 2093, 2086,
             2080, 2074, 2069, 2064, 2060, 2056, 2052, 2048, 2045, 2042>>[d]
      [] q = 995 ->
           <<63657, 9925, 5841, 4604, 4032, 3707, 3499, 3355, 3250, 3169,
             3106, 3055, 3012, 2977, 2947, 2921, 2898, 2878, 2861, 2845,
             2831, 2819, 2807, 2797, 2787, 2779, 2771, 2763, 2756, 2750>>[d]

NormPpf(q) == FromRatio(NormPpfMilli(q), 1000)

\* scipy returns nan for df <= 0.
TPpf(q, d) == IF d <= 0 THEN NaN ELSE FromRatio(TPpfMilli(q, d), 1000)

\* A probability strictly between 0 and 1 that the model does not evaluate:
\* only its side of the 0.05 threshold is kept (v = 1: at most 0.05).
Between01(sig) == [k |-> "tail", v |-> IF sig THEN 1 ELSE 0]

\* 2 * (1 - cdf(|stat|)) for a cdf of the given family.  cdf(0) = 1/2 and
\* cdf(inf) = 1 for both families, cdf(nan) = nan, and the t cdf is nan for
\* df <= 0.  For any other stat the result lies in (0, 1) and is at most 0.05
\* exactly when |stat| reaches the family's 0.975 quantile.
TwoSidedP(family, d, stat) ==
    LET a == Abs(stat)
    IN  IF family = "t" /\ d <= 0 THEN NaN
        ELSE IF IsNaN(a) THEN NaN
        ELSE IF IsInf(a) THEN Zero
        ELSE IF a.v = 0 THEN One
        ELSE LET crit == IF family = "norm" THEN NormPpfMilli(975)
                         ELSE TPpfMilli(975, d)
             IN  Between01(a.v * 1000 >= crit * Unit)

\* p <= 0.05
AtMost05(p) == IF p.k = "tail" THEN p.v = 1 ELSE Le(p, FromRatio(5, 100))

\* ------------------------------------------------------ text parsing
\* What raw_input.split(",") can hold: the texts between the commas.
TokenTexts == {"48", " 52 ", "50", "abc", "", "inf", "nan"}

\* x.strip()
Strip(text) ==
    CASE text = " 52 " -> "52"
      [] OTHER -> text

\* float(text): the value, or Unbound when Python raises ValueError.
\* Python's float accepts "inf" and "nan".
Float(text) ==
    CASE text = "48" -> FromInt(48)
      [] text = "52" -> FromInt(52)
      [] text = "50" -> FromInt(50)
      [] text = "1" -> FromInt(1)
      [] text = "2" -> FromInt(2)
      [] text = "4" -> FromInt(4)
      [] text = "inf" -> PInf
      [] text = "nan" -> NaN
      [] OTHER -> Unbound

\* [float(x.strip()) for x in tokens]
ParseAll(tokens) == [i \in 1..Len(tokens) |-> Float(Strip(tokens[i]))]

Raises(tokens) == \E i \in 1..Len(tokens) : ParseAll(tokens)[i] = Unbound

\* Every non-empty list of at most MaxTokens texts from T.
TokenLists(T) == UNION {[1..len -> T] : len \in 1..MaxTokens}

\* ------------------------------------------------------------- numpy
RECURSIVE SumFrom(_, _, _)
SumFrom(xs, i, acc) ==
    IF i > Len(xs) THEN acc ELSE SumFrom(xs, i + 1, Add(acc, xs[i]))
\* np.add.reduce over a short array: left to right.
Sum(xs) == SumFrom(xs, 1, Zero)

\* np.mean(data)
NpMean(xs) == Div(Sum(xs), FromInt(Len(xs)))

\* np.std(data, ddof): sqrt(sum((x - mean)^2) / max(n - ddof, 0))
NpStd(xs, ddof) ==
    LET m == NpMean(xs)
        dev == [i \in 1..Len(xs) |-> Sub(xs[i], m)]
        sq == [i \in 1..Len(xs) |-> Mul(dev[i], dev[i])]
        rcount == IF Len(xs) - ddof > 0 THEN Len(xs) - ddof ELSE 0
    IN  Sqrt(Div(Sum(sq), FromInt(rcount)))


\* --------------------------------------------------- the script's state
VARIABLES
    pc,               \* the statement the run is at
    error,            \* the exception that ended the run ("" while none)
    shown,            \* what st.* has rendered in this run, in order
    calls,            \* the ppf/cdf calls the script itself has made, in order
    bound,            \* the Python names assigned so far in this run
    analysis_mode, data_source, raw_input,
    mean, std_dev, n, confidence,
    test_type, df, critical_value,
    standard_error, margin_of_error, lower_bound, upper_bound,
    null_input, null_hypothesis, test_stat, p_value,
    target_moe, required_n,
    x_input, y_input, x, y, fit, prediction

inputVars == <<analysis_mode, data_source, raw_input, mean, std_dev, n, confidence>>
selectVars == <<test_type, df, critical_value>>
intervalVars == <<standard_error, margin_of_error, lower_bound, upper_bound>>
testVars == <<null_input, null_hypothesis, test_stat, p_value>>
planVars == <<target_moe, required_n>>
bivVars == <<x_input, y_input, x, y, fit, prediction>>
vars == <<pc, error, shown, calls, bound, inputVars, selectVars, intervalVars,
          testVars, planVars, bivVars>>

NoFit == [slope |-> Unbound, intercept |-> Unbound, r_value |-> Unbound,
          p_value |-> Unbound, r_squared |-> Unbound, residuals |-> <<>>]

\* The values typed into the Manual Summary form.  std_dev has no min_value.
ManualMeans == {FromInt(50)}
ManualStdDevs == {FromInt(5), Zero, FromInt(-5), FromRatio(1, 2)}
\* A null-hypothesis value typed over the default.
EditedNulls == {FromInt(52)}

Init ==
    /\ pc = "mode"
    /\ error = ""
    /\ shown = <<>>
    /\ calls = <<>>
    /\ bound = {}
    /\ analysis_mode = ""
    /\ data_source = ""
    /\ raw_input = <<>>
    /\ mean = Unbound
    /\ std_dev = Unbound
    /\ n = 0
    /\ confidence = 0
    /\ test_type = ""
    /\ df = 0
    /\ critical_value = Unbound
    /\ standard_error = Unbound
    /\ margin_of_error = Unbound
    /\ lower_bound = Unbound
    /\ upper_bound = Unbound
    /\ null_input = ""
    /\ null_hypothesis = Unbound
    /\ test_stat = Unbound
    /\ p_value = Unbound
    /\ target_moe = Unbound
    /\ required_n = Unbound
    /\ x_input = <<>>
    /\ y_input = <<>>
    /\ x = <<>>
    /\ y = <<>>
    /\ fit = NoFit
    /\ prediction = Unbound

\* line 13: the sidebar selectbox.
SelectMode ==
    /\ pc = "mode"
    /\ \E m \in {"Univariate", "Bivariate"} :
          /\ analysis_mode' = m
          /\ pc' = IF m = "Univariate" THEN "source" ELSE "biv_input"
    /\ UNCHANGED <<error, shown, calls, bound, data_source, raw_input, mean,
                   std_dev, n, confidence, selectVars, intervalVars, testVars,
                   planVars, bivVars>>

\* lines 18-23: three number inputs; only n has a lower limit (min_value=2).
ManualSummary ==
    /\ pc = "source"
    /\ data_source' = "Manual Summary"
    /\ \E m \in ManualMeans, s \in ManualStdDevs, k \in 2..MaxN :
          /\ mean' = m
          /\ std_dev' = s
          /\ n' = k
    /\ bound' = bound \cup {"mean", "std_dev", "n"}
    /\ pc' = "confidence"
    /\ UNCHANGED <<error, shown, calls, analysis_mode, raw_input, confidence,
                   selectVars, intervalVars, testVars, planVars, bivVars>>

\* lines 18, 25-29: parse the text area, then reduce it with numpy.  A text
\* float() refuses raises ValueError at line 26 and ends the run.
RawData ==
    /\ pc = "source"
    /\ data_source' = "Raw Data"
    /\ \E raw \in TokenLists(TokenTexts) :
          /\ raw_input' = raw
          /\ IF Raises(raw)
             THEN /\ pc' = "failed"
                  /\ error' = "ValueError"
                  /\ UNCHANGED <<mean, std_dev, n, bound>>
             ELSE /\ mean' = NpMean(ParseAll(raw))
                  /\ std_dev' = NpStd(ParseAll(raw), 1)
                  /\ n' = Len(ParseAll(raw))
                  /\ bound' = bound \cup {"data", "mean", "std_dev", "n"}
                  /\ pc' = "confidence"
                  /\ UNCHANGED error
    /\ UNCHANGED <<shown, calls, analysis_mode, confidence, selectVars,
                   intervalVars, testVars, planVars, bivVars>>

\* line 31: the confidence slider.
ConfidenceSlider ==
    /\ pc = "confidence"
    /\ \E c \in ConfidenceLevels : confidence' = c
    /\ pc' = "select"
    /\ UNCHANGED <<error, shown, calls, bound, analysis_mode, data_source,
                   raw_input, mean, std_dev, n, selectVars, intervalVars,
                   testVars, planVars, bivVars>>

\* line 34: the large-sample test.
UseNormal(k) == k >= 30

PpfCall(family, d, q) == [fn |-> "ppf", family |-> family, df |-> d, q |-> q]
CdfCall(family, d) == [fn |-> "cdf", family |-> family, df |-> d, q |-> 0]

\* lines 34-42: df is assigned on the else branch only.
SelectDistribution ==
    /\ pc = "select"
    /\ IF UseNormal(n)
       THEN /\ test_type' = "Z-Test"
            /\ critical_value' = NormPpf(Quantile(confidence))
            /\ calls' = Append(calls, PpfCall("norm", 0, Quantile(confidence)))
            /\ bound' = bound \cup {"test_type", "critical_value"}
            /\ UNCHANGED df
       ELSE /\ test_type' = "T-Test"
            /\ df' = n - 1
            /\ critical_value' = TPpf(Quantile(confidence), n - 1)
            /\ calls' = Append(calls, PpfCall("t", n - 1, Quantile(confidence)))
            /\ bound' = bound \cup {"test_type", "df", "critical_value"}
    /\ pc' = "interval"
    /\ UNCHANGED <<error, shown, inputVars, intervalVars, testVars, planVars,
                   bivVars>>

\* line 44
StandardError(sd, k) == Div(sd, Sqrt(FromInt(k)))
\* line 45
MarginOfError(cv, se) == Mul(cv, se)

\* lines 44-47
ComputeInterval ==
    /\ pc = "interval"
    /\ standard_error' = StandardError(std_dev, n)
    /\ margin_of_error' = MarginOfError(critical_value, StandardError(std_dev, n))
    /\ lower_bound' = Sub(mean, MarginOfError(critical_value, StandardError(std_dev, n)))
    /\ upper_bound' = Add(mean, MarginOfError(critical_value, StandardError(std_dev, n)))
    /\ bound' = bound \cup {"standard_error", "margin_of_error", "lower_bound",
                            "upper_bound"}
    /\ pc' = "results"
    /\ UNCHANGED <<error, shown, calls, inputVars, selectVars, testVars,
                   planVars, bivVars>>

\* lines 50-56: st.info, three st.metric, st.success.
DisplayResults ==
    /\ pc = "results"
    /\ shown' = shown \o <<"methodology", "metrics", "interval">>
    /\ pc' = "hypothesis"
    /\ UNCHANGED <<error, calls, bound, inputVars, selectVars, intervalVars,
                   testVars, planVars, bivVars>>

\* The threshold of line 63 off by one against line 34.
TestUsesNormalStrict(k) == k > 30

\* line 63: the test re-evaluates n >= 30 and, on the else branch, reads df.
TestUsesNormal(k) == k >= 30

\* st.number_input and st.slider refuse a value outside the JavaScript number
\* range with StreamlitAPIException; nan passes their comparisons.
OutOfJsRange(a) == IsInf(a)

\* lines 61-68: the number input defaults to the sample mean.  Reading df
\* while it is unassigned would raise NameError.
HypothesisTest ==
    /\ pc = "hypothesis"
    /\ IF OutOfJsRange(mean)
       THEN /\ pc' = "failed"
            /\ error' = "StreamlitAPIException"
            /\ UNCHANGED <<testVars, calls, shown, bound>>
       ELSE \E choice \in {"default", "edited"} :
             \E mu0 \in IF choice = "default" THEN {mean} ELSE EditedNulls :
              \E stat \in {Div(Sub(mean, mu0), standard_error)} :
                  /\ null_input' = choice
                  /\ null_hypothesis' = mu0
                  /\ test_stat' = stat
                  /\ IF ~TestUsesNormal(n) /\ "df" \notin bound
                     THEN /\ pc' = "failed"
                          /\ error' = "NameError"
                          /\ UNCHANGED <<p_value, calls, shown>>
                          /\ bound' = bound \cup {"null_hypothesis", "test_stat"}
                     ELSE /\ p_value' = IF TestUsesNormal(n)
                                        THEN TwoSidedP("norm", 0, stat)
                                        ELSE TwoSidedP("t", df, stat)
                          /\ calls' = Append(calls,
                                             IF TestUsesNormal(n) THEN CdfCall("norm", 0)
                                             ELSE CdfCall("t", df))
                          /\ shown' = Append(shown,
                                             IF AtMost05(p_value') THEN "significant"
                                             ELSE "not_significant")
                          /\ bound' = bound \cup {"null_hypothesis", "test_stat",
                                                  "p_value"}
                          /\ pc' = "plot"
                          /\ UNCHANGED error
    /\ UNCHANGED <<inputVars, selectVars, intervalVars, planVars, bivVars>>

\* lines 71-76: the interval chart.
PlotUnivariate ==
    /\ pc = "plot"
    /\ shown' = Append(shown, "interval_chart")
    /\ pc' = "optimizer"
    /\ UNCHANGED <<error, calls, bound, inputVars, selectVars, intervalVars,
                   testVars, planVars, bivVars>>

\* line 81: st.slider(min_value, max_value, value).  Streamlit widens the
\* bounds so that min <= value <= max:
\*   min_value = min(min_value, max_value); max_value = max(min_value, max_value)
\*   min_value = min(value, min_value);     max_value = max(value, max_value)
\* and returns the value the user leaves the handle at: the default or either end.
SliderChoices(lo, hi, value) ==
    LET lo1 == FMin(lo, hi)
        hi1 == FMax(lo1, hi)
    IN  {value, FMin(value, lo1), FMax(value, hi1)}

\* line 82
RequiredN(cv, sd, target) ==
    LET ratio == Div(Mul(cv, sd), target)
    IN  Ceil(Mul(ratio, ratio))

\* int(required_n) raises ValueError on nan and OverflowError on an infinity.
IntError(a) == IF IsNaN(a) THEN "ValueError" ELSE IF IsInf(a) THEN "OverflowError" ELSE ""

\* lines 81-84: slider, required_n, st.write, then st.title(int(required_n)).
NOptimizer ==
    /\ pc = "optimizer"
    /\ IF OutOfJsRange(margin_of_error)
       THEN /\ pc' = "failed"
            /\ error' = "StreamlitAPIException"
            /\ UNCHANGED <<planVars, shown, bound>>
       ELSE /\ \E t \in SliderChoices(Mul(margin_of_error, FromRatio(1, 10)),
                                      Mul(margin_of_error, FromRatio(15, 10)),
                                      Mul(margin_of_error, FromRatio(8, 10))) :
                  /\ target_moe' = t
                  /\ required_n' = RequiredN(critical_value, std_dev, t)
            /\ bound' = bound \cup {"target_moe", "required_n"}
            /\ IF IntError(required_n') # ""
               THEN /\ shown' = Append(shown, "optimizer_target")
                    /\ error' = IntError(required_n')
                    /\ pc' = "failed"
               ELSE /\ shown' = shown \o <<"optimizer_target", "optimizer_n">>
                    /\ pc' = "done"
                    /\ UNCHANGED error
    /\ UNCHANGED <<calls, inputVars, selectVars, intervalVars, testVars, bivVars>>

\* ------------------------------------------------------ bivariate mode
\* The texts typed into the two text areas of the bivariate page.
PairTexts == {"1", "2", "4", "abc"}

\* lines 93-98: both text areas are parsed before anything is compared; a text
\* float() refuses raises ValueError at line 97 or 98.
BivariateInput ==
    /\ pc = "biv_input"
    /\ \E xi \in TokenLists(PairTexts), yi \in TokenLists(PairTexts) :
          /\ x_input' = xi
          /\ y_input' = yi
          /\ IF Raises(xi)
             THEN /\ pc' = "failed"
                  /\ error' = "ValueError"
                  /\ UNCHANGED <<x, y, bound>>
             ELSE IF Raises(yi)
             THEN /\ pc' = "failed"
                  /\ error' = "ValueError"
                  /\ x' = ParseAll(xi)
                  /\ bound' = bound \cup {"x"}
                  /\ UNCHANGED y
             ELSE /\ pc' = "biv_fit"
                  /\ x' = ParseAll(xi)
                  /\ y' = ParseAll(yi)
                  /\ bound' = bound \cup {"x", "y"}
                  /\ UNCHANGED error
    /\ UNCHANGED <<shown, calls, inputVars, selectVars, intervalVars, testVars,
                   planVars, fit, prediction>>

\* stats.linregress refuses more than one point when all x are identical.
IdenticalX(xs) == Len(xs) > 1 /\ \A i \in 1..Len(xs) : xs[i] = xs[1] /\ IsFin(xs[i])

\* np.cov(x, y, bias=1): sums of products of deviations times 1/n.
Cov(us, vs) ==
    LET um == NpMean(us)
        vm == NpMean(vs)
        prod == [i \in 1..Len(us) |-> Mul(Sub(us[i], um), Sub(vs[i], vm))]
    IN  Mul(Sum(prod), Div(One, FromInt(Len(us))))

Clamp(r) == IF Lt(One, r) THEN One ELSE IF Lt(r, Neg(One)) THEN Neg(One) ELSE r

\* stats.linregress(x, y) for len(x) = len(y) >= 1 and not IdenticalX(x).  It has
\* no lower limit on the number of points: one point gives ssxm = 0, r = 0 and
\* slope = 0/0.  TINY (1e-20) is below the model's resolution.
LinRegress(xs, ys) ==
    LET cnt == Len(xs)
        ssxm == Cov(xs, xs)
        ssxym == Cov(xs, ys)
        ssym == Cov(ys, ys)
        r == IF ssxm = Zero \/ ssym = Zero THEN Zero
             ELSE Clamp(Div(ssxym, Sqrt(Mul(ssxm, ssym))))
        slope == Div(ssxym, ssxm)
        intercept == Sub(NpMean(ys), Mul(slope, NpMean(xs)))
        t == Mul(r, Sqrt(Div(FromInt(cnt - 2), Mul(Sub(One, r), Add(One, r)))))
        prob == IF cnt = 2 THEN (IF ys[1] = ys[2] THEN One ELSE Zero)
                ELSE TwoSidedP("t", cnt - 2, t)
    IN  [slope |-> slope, intercept |-> intercept, r_value |-> r, p_value |-> prob]

\* lines 135-136
Residuals(xs, ys, slope, intercept) ==
    [i \in 1..Len(ys) |-> Sub(ys[i], Add(Mul(slope, xs[i]), intercept))]

\* A value typed over the default of the prediction input.
EditedPredictX == {FromInt(3)}

\* lines 100-163: the fit, its metrics, both charts and the prediction.
FitRegression ==
    /\ pc = "biv_fit"
    /\ Len(x) = Len(y)
    /\ IF IdenticalX(x)
       THEN /\ pc' = "failed"
            /\ error' = "ValueError"
            /\ UNCHANGED <<fit, prediction, shown, bound>>
       ELSE \E lr \in {LinRegress(x, y)} :
                /\ fit' = [slope |-> lr.slope, intercept |-> lr.intercept,
                           r_value |-> lr.r_value, p_value |-> lr.p_value,
                           r_squared |-> Mul(lr.r_value, lr.r_value),
                           residuals |-> Residuals(x, y, lr.slope, lr.intercept)]
                /\ \E px \in {NpMean(x)} \cup EditedPredictX :
                      prediction' = Add(Mul(lr.slope, px), lr.intercept)
                /\ shown' = shown \o <<"fit_metrics", "regression_chart",
                                       "residual_chart", "prediction",
                                       "interpretation">>
                /\ bound' = bound \cup {"slope", "intercept", "r_value", "p_value",
                                        "r_squared", "residuals", "prediction"}
                /\ pc' = "done"
                /\ UNCHANGED error
    /\ UNCHANGED <<calls, inputVars, selectVars, intervalVars, testVars,
                   planVars, x_input, y_input, x, y>>

\* lines 164-165: the only length test of the page.
LengthMismatch ==
    /\ pc = "biv_fit"
    /\ Len(x) # Len(y)
    /\ shown' = Append(shown, "length_error")
    /\ pc' = "done"
    /\ UNCHANGED <<error, calls, bound, inputVars, selectVars, intervalVars,
                   testVars, planVars, bivVars>>

\* Streamlit runs the script again from the top, in a fresh namespace, on the
\* next interaction.
Rerun ==
    /\ pc \in {"done", "failed"}
    /\ pc' = "mode"
    /\ error' = ""
    /\ shown' = <<>>
    /\ calls' = <<>>
    /\ bound' = {}
    /\ analysis_mode' = ""
    /\ data_source' = ""
    /\ raw_input' = <<>>
    /\ mean' = Unbound
    /\ std_dev' = Unbound
    /\ n' = 0
    /\ confidence' = 0
    /\ test_type' = ""
    /\ df' = 0
    /\ critical_value' = Unbound
    /\ standard_error' = Unbound
    /\ margin_of_error' = Unbound
    /\ lower_bound' = Unbound
    /\ upper_bound' = Unbound
    /\ null_input' = ""
    /\ null_hypothesis' = Unbound
    /\ test_stat' = Unbound
    /\ p_value' = Unbound
    /\ target_moe' = Unbound
    /\ required_n' = Unbound
    /\ x_input' = <<>>
    /\ y_input' = <<>>
    /\ x' = <<>>
    /\ y' = <<>>
    /\ fit' = NoFit
    /\ prediction' = Unbound

Next ==
    \/ SelectMode
    \/ ManualSummary
    \/ RawData
    \/ ConfidenceSlider
    \/ SelectDistribution
    \/ ComputeInterval
    \/ DisplayResults
    \/ HypothesisTest
    \/ PlotUnivariate
    \/ NOptimizer
    \/ BivariateInput
    \/ FitRegression
    \/ LengthMismatch
    \/ Rerun

Spec == Init /\ [][Next]_vars


\* ------------------------------------------------------------- claims
Selected == "critical_value" \in bound
IntervalDone == "upper_bound" \in bound
Tested == analysis_mode = "Univariate" /\ "p_value" \in bound
Planned == "required_n" \in bound
Last(seq) == seq[Len(seq)]

\* C1: for every n that reaches the selection step, Normal is chosen exactly
\* when n >= 30 and Student's t with df = n - 1 exactly when 2 <= n < 30, and
\* the critical value is the chosen distribution's quantile at (1 + confidence)/2.
C1_SelectorRule ==
    Selected =>
        /\ (test_type = "Z-Test") <=> (n >= 30)
        /\ (test_type = "T-Test" /\ "df" \in bound /\ df = n - 1) <=> (2 <= n /\ n < 30)
        /\ calls[1] = IF test_type = "Z-Test"
                      THEN PpfCall("norm", 0, Quantile(confidence))
                      ELSE PpfCall("t", n - 1, Quantile(confidence))
        /\ critical_value = IF test_type = "Z-Test"
                            THEN NormPpf(Quantile(confidence))
                            ELSE TPpf(Quantile(confidence), n - 1)

\* C2: every interval the program computes has lower_bound <= mean <=
\* upper_bound, margin_of_error >= 0 and upper_bound - lower_bound equal to
\* twice the margin of error.
C2_IntervalInvariant ==
    IntervalDone =>
        /\ Le(lower_bound, mean)
        /\ Le(mean, upper_bound)
        /\ Ge(margin_of_error, Zero)
        /\ Sub(upper_bound, lower_bound) = Mul(FromInt(2), margin_of_error)

\* C3: every summary that reaches the selector has n >= 2 and std_dev >= 0 on
\* both input paths, and a raw sample of fewer than 2 elements is rejected
\* with an error instead of producing a summary.
C3_SummaryInvariant ==
    /\ Selected => (n >= 2 /\ Ge(std_dev, Zero))
    /\ (data_source = "Raw Data" /\ Len(raw_input) < 2)
           => (pc = "failed" /\ "n" \notin bound)

\* C4: with the null value left at its default (the sample mean) the test gives
\* test_stat = 0, p_value = 1.0 and a non-significant result, for every
\* accepted summary.
C4_DefaultNullTest ==
    (Tested /\ null_input = "default") =>
        /\ test_stat = Zero
        /\ p_value = One
        /\ Last(shown) = "not_significant"

FiniteNumber(text) == IsFin(Float(Strip(text)))

\* C5: if any token of the raw text is not a finite number the whole input is
\* rejected with an error and nothing is computed or shown; a summary is
\* produced only when every token is a finite number.
C5_RawTextRejected ==
    data_source = "Raw Data" =>
        /\ (\E i \in 1..Len(raw_input) : ~FiniteNumber(raw_input[i]))
               => (pc = "failed" /\ shown = <<>> /\ "mean" \notin bound)
        /\ "mean" \in bound
               => \A i \in 1..Len(raw_input) : FiniteNumber(raw_input[i])

\* C6: required_n is never computed from a target margin of error <= 0.
C6_PlannerRejectsNonPositiveTarget ==
    Planned => Lt(Zero, target_moe)

\* int(required_n) for a finite required_n
AsInt(a) == a.v \div Unit

\* C7: for every target > 0, feeding required_n back as the sample size with
\* the same critical value and standard deviation gives a margin of error
\* <= target (for required_n = 0: (critical_value * std_dev)^2 <= 0).
C7_PlannerRoundTrip ==
    (Planned /\ IsFin(target_moe) /\ Lt(Zero, target_moe)
             /\ IsFin(critical_value) /\ IsFin(std_dev) /\ IsFin(required_n)) =>
        IF AsInt(required_n) = 0
        THEN Le(Mul(Mul(critical_value, std_dev), Mul(critical_value, std_dev)), Zero)
        ELSE Le(MarginOfError(critical_value,
                              StandardError(std_dev, AsInt(required_n))),
                target_moe)

\* C8: a line is fitted only to x and y of equal length >= 2: different
\* lengths give the length error, an equal length below 2 gives an error, and
\* in both cases no fit statistics, residuals or prediction are produced.
C8_RegressionInputGuard ==
    (analysis_mode = "Bivariate" /\ pc \in {"done", "failed"} /\ error = "") =>
        /\ Len(x) # Len(y) =>
               (Last(shown) = "length_error" /\ fit = NoFit /\ prediction = Unbound)
        /\ (Len(x) = Len(y) /\ Len(x) < 2) =>
               (fit = NoFit /\ prediction = Unbound /\ "fit_metrics" \notin
                    {shown[i] : i \in 1..Len(shown)})

\* C9: within one run the hypothesis test evaluates the cdf of the same
\* distribution, with the same degrees of freedom, whose quantile gave the
\* critical value: normal iff n >= 30, otherwise Student's t with df = n - 1,
\* and the t branch never reads df while it is unassigned.
C9_TestUsesSelectedDistribution ==
    /\ error # "NameError"
    /\ Tested =>
        /\ Len(calls) = 2
        /\ calls[1].fn = "ppf"
        /\ calls[2].fn = "cdf"
        /\ calls[2].family = calls[1].family
        /\ calls[2].df = calls[1].df
        /\ (calls[1].family = "norm") <=> (n >= 30)
        /\ calls[2].family = "t" => ("df" \in bound /\ calls[2].df = n - 1)

\* C9 witness: a small-sample run whose test read the df set by the selection.
C9_Witness ==
    /\ Tested
    /\ n = 29
    /\ calls = <<PpfCall("t", 28, Quantile(confidence)), CdfCall("t", 28)>>

\* C10: no run renders results and then fails in a later computation step.
C10_NoFailureAfterDisplay ==
    pc = "failed" => shown = <<>>

=============================================================================
